---- MODULE Spec2Model ----
(***************************************************************************)
(* Model of flask_mock_api/app.py: the shipment store (shipments.json),    *)
(* the reference tables, and the handlers that read or rewrite the store:  *)
(* ensure_baselines, approve, reject, optimization, simulate and           *)
(* dashboard_metrics.                                                      *)
(*                                                                         *)
(* Encoding of Python values                                               *)
(*   dict            a function whose DOMAIN is the set of keys present    *)
(*   None            <<>>  ; an optional number or boolean v is <<v>>      *)
(*   carrier name    a string; the JSON null carrier is NullName           *)
(*   money           integer cents      (round(x, 2) of a USD amount)      *)
(*   emission        integer centi-kg   (round(x, 2) of kg CO2e)           *)
(*   emission factor integer thousandths of kg CO2e per ton-km             *)
(*   percentages     policy inputs in whole percent; the computed          *)
(*                   reduction in hundredths of a percent (round(x, 2))    *)
(*   date string     <<y, m, d>> for the text "y-m-d"; strptime decides    *)
(*                   whether it is a date                                  *)
(* Arithmetic is exact decimal arithmetic; binary floating point error of  *)
(* the Python floats is not modelled.                                      *)
(***************************************************************************)
EXTENDS Integers, Sequences, FiniteSets, TLC

VARIABLES store, carriers, req, resp

vars == <<store, carriers, req, resp>>

\* ------------------------------------------------------------------------
\* Python values
\* ------------------------------------------------------------------------

None == <<>>

Some(v) == <<v>>

NullName == "null"

\* d.get(k, default)
Get(d, k, default) == IF k \in DOMAIN d THEN d[k] ELSE default

\* d[k] = v
Put(d, k, v) == [x \in (DOMAIN d) \cup {k} |-> IF x = k THEN v ELSE d[x]]

\* round(n / d) to the nearest integer, ties to the even one (Python round), d > 0
RoundHalfEven(n, d) ==
    LET q == n \div d
        r == n % d
    IN  IF 2 * r < d THEN q
        ELSE IF 2 * r > d THEN q + 1
        ELSE IF q % 2 = 0 THEN q ELSE q + 1

\* ------------------------------------------------------------------------
\* Reference tables (read-only data files)
\* ------------------------------------------------------------------------

\* distances.json : "origin-destination" -> km
DistancesFile == (<<"Dubai", "Mumbai">> :> 500) @@ (<<"Doha", "Doha">> :> 0)

\* emission_factors.json : mode -> factor; <<>> is an entry float() rejects
EmissionFile ==
    [m \in {"air", "road", "rail", "sea", "barge"} |->
        CASE m = "air"   -> Some(500)
          [] m = "road"  -> Some(62)
          [] m = "rail"  -> Some(22)
          [] m = "sea"   -> Some(10)
          [] m = "barge" -> None]

\* carriers.json : the catalog the seeder falls back to, followed by a
\* second, cheaper sea carrier that states no avg_transit_days
FullCatalog ==
    << [name |-> "AirFast",  mode |-> "air",  base_cost_per_km |-> 55, avg_transit_days |-> 2],
       [name |-> "RoadGulf", mode |-> "road", base_cost_per_km |-> 16, avg_transit_days |-> 5],
       [name |-> "RailEuro", mode |-> "rail", base_cost_per_km |-> 12, avg_transit_days |-> 4],
       [name |-> "SeaWise",  mode |-> "sea",  base_cost_per_km |-> 10, avg_transit_days |-> 14],
       [name |-> "SeaSlow",  mode |-> "sea",  base_cost_per_km |-> 8] >>

\* a catalog whose cleanest carrier is expensive
PriceyCatalog ==
    << [name |-> "AirFast",  mode |-> "air",  base_cost_per_km |-> 55, avg_transit_days |-> 2],
       [name |-> "RoadGulf", mode |-> "road", base_cost_per_km |-> 16, avg_transit_days |-> 5],
       [name |-> "RailEuro", mode |-> "rail", base_cost_per_km |-> 12, avg_transit_days |-> 4],
       [name |-> "EcoSail",  mode |-> "sea",  base_cost_per_km |-> 30, avg_transit_days |-> 0] >>

Catalogs == {FullCatalog, PriceyCatalog, <<>>}

\* ------------------------------------------------------------------------
\* Utility functions
\* ------------------------------------------------------------------------

get_distance(origin, destination) ==
    Get(DistancesFile, <<origin, destination>>, 1000)

carrier_lookup(name) ==
    LET hits == {i \in 1..Len(carriers) : carriers[i]["name"] = name}
    IN  IF hits = {} THEN None
        ELSE Some(carriers[CHOOSE i \in hits : \A j \in hits : i <= j])

list_alternative_carriers(exclude) ==
    SelectSeq(carriers, LAMBDA c : c["name"] # exclude)

get_emission_factor(mode) ==
    IF mode # None /\ mode[1] \in DOMAIN EmissionFile
    THEN [factor |-> IF EmissionFile[mode[1]] # None THEN EmissionFile[mode[1]][1] ELSE 100,
          source |-> "internal:emission_factors.json"]
    ELSE [factor |-> 100, source |-> "default:0.1 (missing or unknown mode)"]

\* mode and factor_override are optional values
calc_emission_with_provenance(weight_kg, distance_km, mode, factor_override) ==
    LET ef == IF factor_override # None
              THEN [factor |-> factor_override[1], source |-> "override"]
              ELSE get_emission_factor(mode)
    IN  [emission |-> RoundHalfEven(weight_kg * distance_km * ef.factor, 10000),
         details  |-> [weight_kg |-> weight_kg,
                       distance_km |-> distance_km,
                       mode |-> mode,
                       emission_factor_kgco2e_per_ton_km |-> ef.factor,
                       factor_source |-> ef.source]]

calc_cost(distance_km, base_cost_per_km, surcharges_usd) ==
    distance_km * base_cost_per_km + surcharges_usd

default_transit_days_for_mode(mode) ==
    LET m == IF mode = None THEN "" ELSE mode[1]
    IN  CASE m = "air"  -> 2
          [] m = "road" -> 5
          [] m = "rail" -> 4
          [] m = "sea"  -> 14
          [] OTHER      -> 5

compute_transit_days_for_carrier(carrier_obj) ==
    IF carrier_obj = None THEN None
    ELSE Some(Get(carrier_obj[1], "avg_transit_days",
                  default_transit_days_for_mode(Some(carrier_obj[1]["mode"]))))

\* dict.update(kv)
Update(d, kv) ==
    [x \in (DOMAIN d) \cup (DOMAIN kv) |-> IF x \in DOMAIN kv THEN kv[x] ELSE d[x]]

\* truth value of a carrier name taken from a request: None and "" are falsy
Truthy(name) == name \notin {NullName, ""}

\* ------------------------------------------------------------------------
\* The shipment store (shipments.json) as seeded
\* ------------------------------------------------------------------------

SeedRoadAir ==
    << [shipment_id |-> "S1", origin |-> "Dubai", destination |-> "Mumbai",
        weight_kg |-> 2000, carrier |-> "RoadGulf", status |-> "CREATED"],
       [shipment_id |-> "S2", origin |-> "Berlin", destination |-> "Paris",
        weight_kg |-> 1000, carrier |-> "AirFast", cost_usd |-> 60000] >>

SeedUnassigned ==
    << [shipment_id |-> "S1", origin |-> "Dubai", destination |-> "Mumbai",
        weight_kg |-> 2000, carrier |-> "AirFast", status |-> "CREATED"],
       [shipment_id |-> "S2", origin |-> "Berlin", destination |-> "Paris",
        weight_kg |-> 1000, carrier |-> NullName, status |-> "CREATED"] >>

\* a shipment that travels 0 km and one whose carrier is in no catalog and
\* whose declared cost is 0
SeedEdge ==
    << [shipment_id |-> "S1", origin |-> "Doha", destination |-> "Doha",
        weight_kg |-> 2000, carrier |-> "RoadGulf", status |-> "CREATED"],
       [shipment_id |-> "S2", origin |-> "Berlin", destination |-> "Paris",
        weight_kg |-> 1000, carrier |-> "Ghost", cost_usd |-> 0, status |-> "CREATED"] >>

SeedStores == {SeedRoadAir, SeedUnassigned}

QuerySeedStores == SeedStores \cup {SeedEdge}

ShipmentIds == {"S1", "S2"}

\* ids a request may name: the stored ones and one that is not stored
RequestIds == ShipmentIds \cup {"S9"}

\* a lookup that never misses: an id that is not stored resolves to the first
\* shipment
find_shipment_or_first(shipments, shipment_id) ==
    LET hits == {i \in 1..Len(shipments) : shipments[i]["shipment_id"] = shipment_id}
    IN  IF hits = {} THEN 1 ELSE CHOOSE i \in hits : \A j \in hits : i <= j

\* next((i for s in shipments if s['shipment_id'] == shipment_id), None)
find_shipment(shipments, shipment_id) ==
    LET hits == {i \in 1..Len(shipments) : shipments[i]["shipment_id"] = shipment_id}
    IN  IF hits = {} THEN 0 ELSE CHOOSE i \in hits : \A j \in hits : i <= j

\* ------------------------------------------------------------------------
\* ensure_baselines
\* ------------------------------------------------------------------------

\* cost and emission of a shipment for the carrier assigned to it, as
\* ensure_baselines computes them (carrier absent from the catalog: rate 0,
\* mode None)
carrier_figures(s, distance_km) ==
    LET current_carrier == carrier_lookup(Get(s, "carrier", NullName))
        mode      == IF current_carrier # None THEN Some(current_carrier[1]["mode"]) ELSE None
        base_cost == IF current_carrier # None THEN current_carrier[1]["base_cost_per_km"] ELSE 0
    IN  [cost |-> Get(s, "cost_usd", calc_cost(distance_km, base_cost, 0)),
         emi  |-> calc_emission_with_provenance(s["weight_kg"], distance_km, mode, None)]

\* the original_* block without its guard: the snapshot retaken on every call
original_snapshot_always(s, fig) ==
    [s |-> Update(s, [original_carrier          |-> Get(s, "carrier", NullName),
                      original_cost_usd         |-> fig.cost,
                      original_emission_kg_co2e |-> fig.emi.emission,
                      original_emission_details |-> fig.emi.details]),
     changed |-> TRUE]

\* the block run only when the shipment has no original_carrier key
original_snapshot(s, fig) ==
    IF "original_carrier" \notin DOMAIN s
    THEN [s |-> Update(s, [original_carrier          |-> Get(s, "carrier", NullName),
                           original_cost_usd         |-> fig.cost,
                           original_emission_kg_co2e |-> fig.emi.emission,
                           original_emission_details |-> fig.emi.details]),
          changed |-> TRUE]
    ELSE [s |-> s, changed |-> FALSE]

\* the current_* block without its guard: the figures recomputed on every call
current_snapshot_always(s, fig) ==
    [s |-> Update(s, [current_cost_usd         |-> fig.cost,
                      current_emission_kg_co2e |-> fig.emi.emission,
                      current_emission_details |-> fig.emi.details]),
     changed |-> TRUE]

\* the block run only when a current_* figure is missing
current_snapshot(s, fig) ==
    IF "current_cost_usd" \notin DOMAIN s \/ "current_emission_kg_co2e" \notin DOMAIN s
    THEN [s |-> Update(s, [current_cost_usd         |-> fig.cost,
                           current_emission_kg_co2e |-> fig.emi.emission,
                           current_emission_details |-> fig.emi.details]),
          changed |-> TRUE]
    ELSE [s |-> s, changed |-> FALSE]

\* one iteration of the loop: the shipment as left in memory, and whether
\* the iteration set changed
baseline_shipment(s) ==
    LET distance_km == get_distance(s["origin"], s["destination"])
        s1  == Put(s, "distance_km", distance_km)
        fig == carrier_figures(s1, distance_km)
        o   == original_snapshot(s1, fig)
        c   == current_snapshot(o.s, fig)
    IN  [s |-> c.s, changed |-> o.changed \/ c.changed]

\* the whole function on a loaded store: what is on disk afterwards
ensure_baselines_run(shipments) ==
    LET mem     == [i \in 1..Len(shipments) |-> baseline_shipment(shipments[i])]
        changed == \E i \in 1..Len(shipments) : mem[i].changed
    IN  [changed |-> changed,
         saved   |-> IF changed THEN [i \in 1..Len(shipments) |-> mem[i].s] ELSE shipments]

ensure_baselines ==
    LET r == ensure_baselines_run(store)
    IN  /\ store' = r.saved
        /\ req'   = [op |-> "ensure_baselines"]
        /\ resp'  = [op |-> "ensure_baselines", changed |-> r.changed, written |-> r.changed]
        /\ UNCHANGED carriers

\* ------------------------------------------------------------------------
\* approve / reject
\* ------------------------------------------------------------------------

\* current_* recomputed only when the assigned carrier is in the catalog
recompute_current(s, distance_km) ==
    LET cur_carrier == carrier_lookup(Get(s, "carrier", NullName))
    IN  IF cur_carrier # None
        THEN LET emi == calc_emission_with_provenance(
                            s["weight_kg"], distance_km, Some(cur_carrier[1]["mode"]), None)
             IN  Update(s, [current_cost_usd |->
                                Get(s, "cost_usd",
                                    calc_cost(distance_km, cur_carrier[1]["base_cost_per_km"], 0)),
                            current_emission_kg_co2e |-> emi.emission,
                            current_emission_details |-> emi.details])
        ELSE s

\* an approve that takes the missing original_* snapshot itself, from the
\* carrier assigned before the choice is applied
approve_shipment_snapshotting(s, chosen_carrier, comments) ==
    LET distance_km == get_distance(s["origin"], s["destination"])
        s1 == Put(s, "distance_km", distance_km)
        s0 == original_snapshot(s1, carrier_figures(s1, distance_km)).s
        s2 == IF Truthy(chosen_carrier) THEN Put(s0, "carrier", chosen_carrier) ELSE s0
        s3 == recompute_current(s2, distance_km)
    IN  Update(s3, [status |-> "APPROVED", approver_comments |-> comments])

approve_shipment(s, chosen_carrier, comments) ==
    LET distance_km == get_distance(s["origin"], s["destination"])
        s1 == Put(s, "distance_km", distance_km)
        s2 == IF Truthy(chosen_carrier) THEN Put(s1, "carrier", chosen_carrier) ELSE s1
        s3 == recompute_current(s2, distance_km)
    IN  Update(s3, [status |-> "APPROVED", approver_comments |-> comments])

\* a reject that puts the shipment back on its original carrier
reject_shipment_reverting(s, comments) ==
    LET distance_km == get_distance(s["origin"], s["destination"])
        s1 == Put(s, "distance_km", distance_km)
        s0 == IF "original_carrier" \in DOMAIN s1
              THEN Put(s1, "carrier", s1["original_carrier"]) ELSE s1
        s2 == recompute_current(s0, distance_km)
    IN  Update(s2, [status |-> "REJECTED", approver_comments |-> comments])

reject_shipment(s, comments) ==
    LET distance_km == get_distance(s["origin"], s["destination"])
        s1 == Put(s, "distance_km", distance_km)
        s2 == recompute_current(s1, distance_km)
    IN  Update(s2, [status |-> "REJECTED", approver_comments |-> comments])

NotFound(op) == [op |-> op, code |-> 404, body |-> [error |-> "Shipment not found"]]

approve(shipment_id, chosen_carrier, comments) ==
    LET i == find_shipment(store, shipment_id)
    IN  /\ req' = [op |-> "approve", shipment_id |-> shipment_id,
                   chosen_carrier |-> chosen_carrier, comments |-> comments]
        /\ IF i = 0
           THEN /\ resp' = NotFound("approve")
                /\ UNCHANGED store
           ELSE /\ store' = [store EXCEPT ![i] = approve_shipment(@, chosen_carrier, comments)]
                /\ resp' = [op |-> "approve", code |-> 200,
                            body |-> [message |-> "Approval recorded",
                                      shipment_id |-> shipment_id,
                                      chosen_carrier |-> chosen_carrier,
                                      comments |-> comments]]
        /\ UNCHANGED carriers

reject(shipment_id, comments) ==
    LET i == find_shipment(store, shipment_id)
    IN  /\ req' = [op |-> "reject", shipment_id |-> shipment_id, comments |-> comments]
        /\ IF i = 0
           THEN /\ resp' = NotFound("reject")
                /\ UNCHANGED store
           ELSE /\ store' = [store EXCEPT ![i] = reject_shipment(@, comments)]
                /\ resp' = [op |-> "reject", code |-> 200,
                            body |-> [message |-> "Rejection recorded",
                                      shipment_id |-> shipment_id,
                                      comments |-> comments]]
        /\ UNCHANGED carriers

\* ------------------------------------------------------------------------
\* Policy helpers
\* ------------------------------------------------------------------------

\* names bound in the module's namespace by its import statements
ImportedNames ==
    {"Flask", "jsonify", "request", "json", "os", "random", "uuid", "datetime", "date"}

IsLeap(y) == (y % 4 = 0 /\ y % 100 # 0) \/ y % 400 = 0

DaysInMonth(y, m) ==
    CASE m \in {1, 3, 5, 7, 8, 10, 12} -> 31
      [] m \in {4, 6, 9, 11}           -> 30
      [] OTHER                         -> IF IsLeap(y) THEN 29 ELSE 28

RECURSIVE DaysBeforeMonth(_, _)
DaysBeforeMonth(y, m) ==
    IF m <= 1 THEN 0 ELSE DaysBeforeMonth(y, m - 1) + DaysInMonth(y, m - 1)

\* date.toordinal()
Ordinal(dt) ==
    LET y == dt[1] - 1
    IN  y * 365 + (y \div 4) - (y \div 100) + (y \div 400)
          + DaysBeforeMonth(dt[1], dt[2]) + dt[3]

\* datetime.strptime(s, "%Y-%m-%d").date(): the day's ordinal, or None when
\* the text is not a date (the call raises)
strptime(s) ==
    IF /\ Len(s) = 3
       /\ s[1] \in 1..9999
       /\ s[2] \in 1..12
       /\ s[3] \in 1..DaysInMonth(s[1], s[2])
    THEN Some(Ordinal(s))
    ELSE None

\* date.today()
Today == <<2026, 11, 4>>

\* a normalisation without the date validation: the text is kept as given
parse_policy_keeping_text(args) ==
    LET due == Get(args, "sla_due_date", None)
        pri == Get(args, "sla_priority", "")
    IN  [sla_due_date   |-> due,
         sla_priority   |-> IF pri # "" THEN pri ELSE "normal",
         budget_cap_usd |-> IF "budget_cap_usd" \in DOMAIN args
                            THEN Some(args["budget_cap_usd"]) ELSE None,
         emission_reduction_min_pct |-> Get(args, "emission_reduction_min_pct", 30),
         budget_increase_max_pct    |-> Some(Get(args, "budget_increase_max_pct", 10))]

\* request.args / the "policy" object of a JSON body -> normalized policy
parse_policy_from_request(args) ==
    LET due == Get(args, "sla_due_date", None)
        pri == Get(args, "sla_priority", "")
    IN  [sla_due_date   |-> IF due # None /\ strptime(due) = None THEN None ELSE due,
         sla_priority   |-> IF pri # "" THEN pri ELSE "normal",
         budget_cap_usd |-> IF "budget_cap_usd" \in DOMAIN args
                            THEN Some(args["budget_cap_usd"]) ELSE None,
         emission_reduction_min_pct |-> Get(args, "emission_reduction_min_pct", 30),
         budget_increase_max_pct    |-> Some(Get(args, "budget_increase_max_pct", 10))]

\* bool(policy): a dict is true when it has keys
policy_truthy(policy) == DOMAIN policy # {}

\* any(policy.values())
policy_any(policy) ==
    \/ policy.sla_due_date # None
    \/ policy.sla_priority # ""
    \/ (policy.budget_cap_usd # None /\ policy.budget_cap_usd[1] # 0)
    \/ policy.emission_reduction_min_pct # 0
    \/ (policy.budget_increase_max_pct # None /\ policy.budget_increase_max_pct[1] # 0)

\* the try block that computes the SLA outcome: strptime may raise, and
\* evaluating the name timedelta raises NameError unless it was imported;
\* either exception leaves None
sla_outcome(due_text, transit_days) ==
    LET due == strptime(due_text)
    IN  IF due = None THEN None
        ELSE IF "timedelta" \notin ImportedNames THEN None
        ELSE Some(Ordinal(Today) + transit_days <= due[1])

\* round((current - candidate) / current * 100, 2), None when current is 0
reduction_pct(current_emission, emission) ==
    IF current_emission # 0
    THEN Some(RoundHalfEven((current_emission - emission) * 10000, current_emission))
    ELSE None

meets_min_reduction(red_pct, policy) ==
    red_pct # None /\ red_pct[1] >= policy.emission_reduction_min_pct * 100

\* candidate_cost <= current_cost * (1 + pct / 100.0)
within_increase(cost, current_cost, pct) ==
    cost * 100 <= current_cost * (100 + pct)

\* ------------------------------------------------------------------------
\* optimization
\* ------------------------------------------------------------------------

\* the policy_eval block of one alternative
policy_eval(policy, current_emission, current_cost, alt_emission, alt_cost, alt_transit) ==
    LET red_pct == reduction_pct(current_emission, alt_emission)
    IN  [emission_reduction_pct_vs_current |-> red_pct,
         meets_min_emission_reduction |-> meets_min_reduction(red_pct, policy),
         within_budget_cap |->
             IF policy.budget_cap_usd # None
             THEN Some(alt_cost <= policy.budget_cap_usd[1]) ELSE None,
         within_budget_increase_pct |->
             IF current_cost # 0 /\ policy.budget_increase_max_pct # None
             THEN Some(within_increase(alt_cost, current_cost, policy.budget_increase_max_pct[1]))
             ELSE None,
         sla_met |->
             IF policy.sla_due_date # None /\ alt_transit # None
             THEN sla_outcome(policy.sla_due_date, alt_transit[1]) ELSE None]

\* the "current" block of the response
current_figures(shipment, distance_km) ==
    LET current_carrier == carrier_lookup(Get(shipment, "carrier", NullName))
    IN  IF current_carrier # None
        THEN LET emi == calc_emission_with_provenance(shipment["weight_kg"], distance_km,
                                                      Some(current_carrier[1]["mode"]), None)
             IN  [carrier |-> Get(shipment, "carrier", NullName),
                  mode |-> Some(current_carrier[1]["mode"]),
                  distance_km |-> distance_km,
                  emission_kg_co2e |-> emi.emission,
                  emission_calculation |-> emi.details,
                  cost_usd |-> Get(shipment, "cost_usd",
                                   calc_cost(distance_km, current_carrier[1]["base_cost_per_km"], 0)),
                  transit_days |-> compute_transit_days_for_carrier(current_carrier)]
        ELSE LET emi == calc_emission_with_provenance(shipment["weight_kg"], distance_km,
                                                      None, None)
             IN  [carrier |-> Get(shipment, "carrier", NullName),
                  mode |-> None,
                  distance_km |-> distance_km,
                  emission_kg_co2e |-> emi.emission,
                  emission_calculation |-> emi.details,
                  cost_usd |-> Get(shipment, "cost_usd", 0),
                  transit_days |-> None]

\* one entry of alternatives[]
alternative(alt, shipment, distance_km, policy, current) ==
    LET emi  == calc_emission_with_provenance(shipment["weight_kg"], distance_km,
                                              Some(alt["mode"]), None)
        cost == calc_cost(distance_km, alt["base_cost_per_km"], 0)
        days == compute_transit_days_for_carrier(Some(alt))
    IN  [carrier |-> alt["name"],
         mode |-> alt["mode"],
         distance_km |-> distance_km,
         emission_kg_co2e |-> emi.emission,
         emission_calculation |-> emi.details,
         estimated_cost_usd |-> cost,
         transit_days |-> days,
         policy_alignment |->
             IF policy_truthy(policy)
             THEN Some(policy_eval(policy, current.emission_kg_co2e, current.cost_usd,
                                   emi.emission, cost, days))
             ELSE None]

\* meets_policy(x): all applicable booleans are True
meets_policy(policy, x) ==
    LET pa  == x.policy_alignment[1]
        cap == pa.within_budget_cap
        inc == pa.within_budget_increase_pct
    IN  /\ pa.meets_min_emission_reduction = TRUE
        /\ IF policy.budget_cap_usd # None /\ policy.budget_increase_max_pct # None
           THEN cap = Some(TRUE) /\ inc = Some(TRUE)
           ELSE IF policy.budget_cap_usd # None THEN cap = Some(TRUE)
           ELSE IF policy.budget_increase_max_pct # None THEN inc = Some(TRUE)
           ELSE TRUE
        /\ (policy.sla_due_date # None => pa.sla_met = Some(TRUE))

\* the pre-filter without its fallback: the candidates are the filtered list
filtered_only(filtered, alternatives) == filtered

\* filtered replaces the candidates only when it is not empty
fallback_candidates(filtered, alternatives) ==
    IF filtered # <<>> THEN filtered ELSE alternatives

\* candidates after the pre-filter
choose_candidates(policy, current_emission, alternatives) ==
    IF policy_truthy(policy) /\ current_emission # 0
    THEN fallback_candidates(SelectSeq(alternatives, LAMBDA x : meets_policy(policy, x)),
                             alternatives)
    ELSE alternatives

\* key=lambda x: (x['emission_kg_co2e'], x['estimated_cost_usd'])
key_less(a, b) ==
    \/ a.emission_kg_co2e < b.emission_kg_co2e
    \/ /\ a.emission_kg_co2e = b.emission_kg_co2e
       /\ a.estimated_cost_usd < b.estimated_cost_usd

\* sorted(seq, key=...): stable, an element goes after the elements it is
\* not smaller than
RECURSIVE insert_sorted(_, _)
insert_sorted(sorted_seq, x) ==
    IF sorted_seq = <<>> THEN <<x>>
    ELSE IF key_less(x, Head(sorted_seq)) THEN <<x>> \o sorted_seq
    ELSE <<Head(sorted_seq)>> \o insert_sorted(Tail(sorted_seq), x)

RECURSIVE sorted_by_key(_)
sorted_by_key(seq) ==
    IF seq = <<>> THEN <<>>
    ELSE insert_sorted(sorted_by_key(SubSeq(seq, 1, Len(seq) - 1)), seq[Len(seq)])

\* a ranking that looks at the emission alone: the first candidate of least
\* emission
recommend_by_emission_only(candidates) ==
    IF candidates # <<>>
    THEN Some(candidates[CHOOSE i \in 1..Len(candidates) :
                  /\ \A j \in 1..Len(candidates) :
                        candidates[j].emission_kg_co2e >= candidates[i].emission_kg_co2e
                  /\ \A j \in 1..(i - 1) :
                        candidates[j].emission_kg_co2e > candidates[i].emission_kg_co2e])
    ELSE None

recommend(candidates) ==
    IF candidates # <<>> THEN Some(sorted_by_key(candidates)[1]) ELSE None

\* the 200 answer for a stored shipment; candidates is the handler's local
\* list the recommendation is taken from
optimization_response(shipment, shipment_id, args) ==
    LET policy       == parse_policy_from_request(args)
        distance_km  == get_distance(shipment["origin"], shipment["destination"])
        current      == current_figures(shipment, distance_km)
        alts         == list_alternative_carriers(Get(shipment, "carrier", NullName))
        alternatives == [k \in 1..Len(alts) |->
                            alternative(alts[k], shipment, distance_km, policy, current)]
        candidates   == choose_candidates(policy, current.emission_kg_co2e, alternatives)
    IN  [op |-> "optimization", code |-> 200,
         candidates |-> candidates,
         body |-> [shipment_id |-> shipment_id,
                   policy |-> IF policy_any(policy) THEN Some(policy) ELSE None,
                   current |-> current,
                   alternatives |-> alternatives,
                   recommended |-> recommend(candidates)]]

optimization(shipment_id, args) ==
    LET i == find_shipment(store, shipment_id)
    IN  /\ req' = [op |-> "optimization", shipment_id |-> shipment_id, args |-> args]
        /\ resp' = IF i = 0 THEN NotFound("optimization")
                   ELSE optimization_response(store[i], shipment_id, args)
        /\ UNCHANGED <<store, carriers>>

\* ------------------------------------------------------------------------
\* simulate
\* ------------------------------------------------------------------------

\* the int 0 that `current_cost and ...` evaluates to when current_cost is 0:
\* neither True, False nor None
FalsyZero == <<0, "int">>

\* the policy_alignment block of the scenario
scenario_alignment(policy, current_emission, current_cost, emission, cost, transit) ==
    LET red_pct == reduction_pct(current_emission, emission)
        budget_cap_ok ==
            policy.budget_cap_usd # None /\ cost <= policy.budget_cap_usd[1]
        budget_increase_ok ==
            IF current_cost = 0 THEN FalsyZero
            ELSE Some(/\ policy.budget_increase_max_pct # None
                      /\ within_increase(cost, current_cost,
                                         policy.budget_increase_max_pct[1]))
    IN  [emission_reduction_pct_vs_current |-> red_pct,
         meets_min_emission_reduction |-> meets_min_reduction(red_pct, policy),
         within_budget_cap |->
             IF policy.budget_cap_usd # None THEN Some(budget_cap_ok) ELSE None,
         within_budget_increase_pct |->
             IF policy.budget_increase_max_pct # None THEN budget_increase_ok ELSE None,
         sla_met |->
             IF policy.sla_due_date # None /\ transit # None
             THEN sla_outcome(policy.sla_due_date, transit[1]) ELSE None]

\* x or y for an optional number: None and 0 are falsy
or_else(x, y) == IF x # None /\ x[1] # 0 THEN x ELSE y

simulate_body(shipment, data) ==
    LET policy           == parse_policy_from_request(Get(data, "policy", <<>>))
        base_distance    == get_distance(shipment["origin"], shipment["destination"])
        current_carrier  == carrier_lookup(Get(shipment, "carrier", NullName))
        current_mode     == IF current_carrier # None
                            THEN Some(current_carrier[1]["mode"]) ELSE None
        current_cost     == Get(shipment, "cost_usd",
                                calc_cost(base_distance,
                                          IF current_carrier # None
                                          THEN current_carrier[1]["base_cost_per_km"] ELSE 0,
                                          0))
        current_transit  == compute_transit_days_for_carrier(current_carrier)
        current_emi      == calc_emission_with_provenance(shipment["weight_kg"], base_distance,
                                                          current_mode, None)
        scenario_carrier_name == Get(data, "carrier", NullName)
        scenario_carrier == IF Truthy(scenario_carrier_name)
                            THEN carrier_lookup(scenario_carrier_name) ELSE None
        scenario_mode    == IF Get(data, "mode", "") # "" THEN Some(data["mode"])
                            ELSE IF scenario_carrier # None
                                 THEN Some(scenario_carrier[1]["mode"]) ELSE current_mode
        scenario_distance == Get(data, "distance_km", base_distance)
        scenario_factor  == IF "emission_factor_kgco2e_per_ton_km" \in DOMAIN data
                            THEN Some(data["emission_factor_kgco2e_per_ton_km"]) ELSE None
        scenario_transit == or_else(IF "expected_transit_days" \in DOMAIN data
                                    THEN Some(data["expected_transit_days"]) ELSE None,
                                    IF scenario_carrier # None
                                    THEN compute_transit_days_for_carrier(scenario_carrier)
                                    ELSE Some(default_transit_days_for_mode(scenario_mode)))
        base_cost_per_km == or_else(IF "base_cost_per_km" \in DOMAIN data
                                    THEN Some(data["base_cost_per_km"]) ELSE None,
                                    IF scenario_carrier # None
                                    THEN Some(scenario_carrier[1]["base_cost_per_km"])
                                    ELSE IF current_carrier # None
                                         THEN Some(current_carrier[1]["base_cost_per_km"])
                                         ELSE Some(0))
        surcharges_usd   == Get(data, "surcharges_usd", 0)
        scenario_emi     == calc_emission_with_provenance(shipment["weight_kg"],
                                                          scenario_distance, scenario_mode,
                                                          scenario_factor)
        scenario_cost    == calc_cost(scenario_distance, base_cost_per_km[1], surcharges_usd)
    IN  [shipment_id |-> shipment["shipment_id"],
         scenario |-> [mode |-> scenario_mode,
                       carrier |-> IF Truthy(scenario_carrier_name)
                                   THEN scenario_carrier_name
                                   ELSE Get(shipment, "carrier", NullName),
                       distance_km |-> scenario_distance,
                       emission_kg_co2e |-> scenario_emi.emission,
                       emission_calculation |-> scenario_emi.details,
                       cost_usd |-> scenario_cost,
                       transit_days |-> scenario_transit],
         current |-> [carrier |-> Get(shipment, "carrier", NullName),
                      mode |-> current_mode,
                      distance_km |-> base_distance,
                      emission_kg_co2e |-> current_emi.emission,
                      emission_calculation |-> current_emi.details,
                      cost_usd |-> current_cost,
                      transit_days |-> current_transit],
         comparison_vs_current |->
             [emission_delta_pct |->
                  IF current_emi.emission # 0
                  THEN Some(RoundHalfEven((scenario_emi.emission - current_emi.emission) * 10000,
                                          current_emi.emission))
                  ELSE None,
              cost_delta_usd |-> scenario_cost - current_cost],
         policy_alignment |->
             IF policy_truthy(policy)
             THEN Some(scenario_alignment(policy, current_emi.emission, current_cost,
                                          scenario_emi.emission, scenario_cost,
                                          scenario_transit))
             ELSE None,
         policy |-> IF policy_any(policy) THEN Some(policy) ELSE None]

\* a simulate that writes the scenario's figures back to the shipment
simulate_persisting(shipment_id, data) ==
    LET i == find_shipment(store, shipment_id)
    IN  /\ req' = [op |-> "simulate", shipment_id |-> shipment_id, data |-> data]
        /\ IF i = 0
           THEN /\ resp' = NotFound("simulate")
                /\ UNCHANGED store
           ELSE LET body == simulate_body(store[i], data)
                IN  /\ resp' = [op |-> "simulate", code |-> 200, body |-> body]
                    /\ store' = [store EXCEPT ![i] =
                                     Update(@, [current_cost_usd |-> body.scenario.cost_usd,
                                                current_emission_kg_co2e |->
                                                    body.scenario.emission_kg_co2e])]
        /\ UNCHANGED carriers

\* the handler never calls save_json: the store is as it was loaded
simulate(shipment_id, data) ==
    LET i == find_shipment(store, shipment_id)
    IN  /\ req' = [op |-> "simulate", shipment_id |-> shipment_id, data |-> data]
        /\ resp' = IF i = 0 THEN NotFound("simulate")
                   ELSE [op |-> "simulate", code |-> 200, body |-> simulate_body(store[i], data)]
        /\ UNCHANGED <<store, carriers>>

\* ------------------------------------------------------------------------
\* dashboard
\* ------------------------------------------------------------------------

RECURSIVE sum_key(_, _)
sum_key(shipments, k) ==
    IF shipments = <<>> THEN 0
    ELSE Get(Head(shipments), k, 0) + sum_key(Tail(shipments), k)

count_status(shipments, status) ==
    Cardinality({i \in 1..Len(shipments) : Get(shipments[i], "status", "") = status})

dashboard_detail(s) ==
    [shipment_id |-> s["shipment_id"],
     status |-> Get(s, "status", "CREATED"),
     original_carrier |-> Get(s, "original_carrier", NullName),
     current_carrier |-> Get(s, "carrier", NullName),
     original_emission_kg_co2e |-> IF "original_emission_kg_co2e" \in DOMAIN s
                                   THEN Some(s["original_emission_kg_co2e"]) ELSE None,
     current_emission_kg_co2e |-> IF "current_emission_kg_co2e" \in DOMAIN s
                                  THEN Some(s["current_emission_kg_co2e"]) ELSE None,
     original_cost_usd |-> IF "original_cost_usd" \in DOMAIN s
                           THEN Some(s["original_cost_usd"]) ELSE None,
     current_cost_usd |-> IF "current_cost_usd" \in DOMAIN s
                          THEN Some(s["current_cost_usd"]) ELSE None,
     emission_delta |-> Get(s, "current_emission_kg_co2e", 0)
                          - Get(s, "original_emission_kg_co2e", 0),
     cost_delta |-> Get(s, "current_cost_usd", 0) - Get(s, "original_cost_usd", 0)]

dashboard_body(shipments) ==
    LET total    == Len(shipments)
        approved == count_status(shipments, "APPROVED")
        rejected == count_status(shipments, "REJECTED")
        emission_original == sum_key(shipments, "original_emission_kg_co2e")
        emission_current  == sum_key(shipments, "current_emission_kg_co2e")
        cost_original     == sum_key(shipments, "original_cost_usd")
        cost_current      == sum_key(shipments, "current_cost_usd")
        reduction         == emission_original - emission_current
    IN  [summary |-> [total_shipments |-> total,
                      approved |-> approved,
                      rejected |-> rejected,
                      pending |-> total - approved - rejected,
                      total_emission_original |-> emission_original,
                      total_emission_current |-> emission_current,
                      total_emission_reduction |-> reduction,
                      total_emission_reduction_pct |->
                          IF emission_original # 0
                          THEN RoundHalfEven(reduction * 10000, emission_original) ELSE 0,
                      total_cost_original |-> cost_original,
                      total_cost_current |-> cost_current,
                      total_cost_delta |-> cost_current - cost_original],
         shipments |-> [i \in 1..Len(shipments) |-> dashboard_detail(shipments[i])]]

\* a dashboard that aggregates the file as it finds it
dashboard_without_baselines ==
    /\ store' = store
    /\ req'   = [op |-> "dashboard"]
    /\ resp'  = [op |-> "dashboard", code |-> 200, body |-> dashboard_body(store)]
    /\ UNCHANGED carriers

\* ensure_baselines() first, then the aggregation over the store as reloaded
dashboard_metrics ==
    LET loaded == ensure_baselines_run(store).saved
    IN  /\ store' = loaded
        /\ req'   = [op |-> "dashboard"]
        /\ resp'  = [op |-> "dashboard", code |-> 200, body |-> dashboard_body(loaded)]
        /\ UNCHANGED carriers

\* ------------------------------------------------------------------------
\* Requests
\* ------------------------------------------------------------------------

\* carriers an approval may name: a catalog carrier, one absent from every
\* catalog, and no choice at all
ChosenCarriers == {NullName, "SeaWise", "Ghost"}

\* the dicts over the keys of `choices`, each key absent or bound to one of
\* its values
RECURSIVE dicts_over(_)
dicts_over(choices) ==
    IF DOMAIN choices = {} THEN {<<>>}
    ELSE LET k    == CHOOSE x \in DOMAIN choices : TRUE
             rest == dicts_over([x \in (DOMAIN choices) \ {k} |-> choices[x]])
         IN  rest \cup {Put(d, k, v) : d \in rest, v \in choices[k]}

MaxDueOffset == 3

MaxCapSteps == 2

MaxTransitOverride == 1

\* due dates from today on, and two texts that are no date
DueTexts ==
    {<<2026, 11, 4 + k>> : k \in 0..MaxDueOffset} \cup {<<2026, 13, 45>>, <<2026, 2, 30>>}

\* query strings of /api/optimization
PolicyArgs ==
    dicts_over([sla_due_date               |-> DueTexts,
                budget_cap_usd             |-> {k * 10000 : k \in 0..MaxCapSteps},
                emission_reduction_min_pct |-> {0, 80},
                budget_increase_max_pct    |-> {0}])
      \cup {[sla_priority |-> "critical"]}

\* the few policies the simulate bodies carry
SimPolicies ==
    {[sla_due_date |-> <<2026, 11, 4>>],
     [budget_cap_usd |-> 10000, budget_increase_max_pct |-> 0],
     [emission_reduction_min_pct |-> 0]}

\* JSON bodies of /simulate
SimData ==
    dicts_over([mode                  |-> {"rail"},
                carrier               |-> {"SeaWise", "Ghost"},
                distance_km           |-> {0, 800},
                emission_factor_kgco2e_per_ton_km |-> {0, 34},
                expected_transit_days |-> 0..MaxTransitOverride,
                base_cost_per_km      |-> {0, 20},
                surcharges_usd        |-> {0, 2000},
                policy                |-> SimPolicies])

\* in the store's life cycle the two read-only handlers take one request each
FewPolicyArgs == {[budget_cap_usd |-> 10000, sla_due_date |-> <<2026, 11, 6>>]}

FewSimData == {[carrier |-> "SeaWise", base_cost_per_km |-> 0,
                policy |-> [emission_reduction_min_pct |-> 0]]}

\* ------------------------------------------------------------------------
\* Specifications
\* ------------------------------------------------------------------------

Start == [op |-> "start"]

Init ==
    /\ store \in SeedStores
    /\ carriers \in {FullCatalog, <<>>}
    /\ req = Start
    /\ resp = Start

Next ==
    \/ ensure_baselines
    \/ \E id \in RequestIds, c \in ChosenCarriers : approve(id, c, "ok")
    \/ \E id \in RequestIds : reject(id, "no")
    \/ \E id \in RequestIds, args \in FewPolicyArgs : optimization(id, args)
    \/ \E id \in RequestIds, data \in FewSimData : simulate(id, data)
    \/ dashboard_metrics

Spec == Init /\ [][Next]_vars

\* One request served on a seeded store: the handler as a function of the
\* store, the catalog and the request
InitQuery ==
    /\ store \in QuerySeedStores
    /\ carriers \in Catalogs
    /\ req = Start
    /\ resp = Start

NextOpt ==
    /\ resp = Start
    /\ \E id \in RequestIds, args \in PolicyArgs : optimization(id, args)

SpecOpt == InitQuery /\ [][NextOpt]_vars

NextSim ==
    /\ resp = Start
    /\ \E id \in RequestIds, data \in SimData : simulate(id, data)

SpecSim == InitQuery /\ [][NextSim]_vars

\* One call of calc_emission_with_provenance, as ensure_baselines, approve,
\* reject, optimization and simulate make it
EmissionModes ==
    {None, Some(""), Some("air"), Some("road"), Some("rail"), Some("sea"),
     Some("barge"), Some("unknown-mode")}

EmissionOverrides == {None, Some(0), Some(34), Some(100)}

emission_call(weight_kg, distance_km, mode, factor_override) ==
    /\ req'  = [op |-> "emission", weight_kg |-> weight_kg, distance_km |-> distance_km,
                mode |-> mode, factor_override |-> factor_override]
    /\ resp' = [op |-> "emission",
                result |-> calc_emission_with_provenance(weight_kg, distance_km,
                                                         mode, factor_override)]
    /\ UNCHANGED <<store, carriers>>

InitEmission ==
    /\ store = SeedRoadAir
    /\ carriers = FullCatalog
    /\ req = Start
    /\ resp = Start

NextEmission ==
    /\ resp = Start
    /\ \E w \in {1000, 2000}, d \in {0, 100, 500}, m \in EmissionModes, o \in EmissionOverrides :
          emission_call(w, d, m, o)

SpecEmission == InitEmission /\ [][NextEmission]_vars

\* Two requests served at the same time. Each handler reads the file into
\* its local list `shipments`, modifies the list and writes it back; no lock
\* is held in between, so the steps of two handlers interleave. Here req[w]
\* is the request worker w serves together with the handler's position (pc)
\* and its local list, and resp[w] is the answer it gave.
Workers == {"w1", "w2"}

Idle == [pc |-> "idle"]

\* a handler that holds a lock from its load to its save: at the save its
\* list is the file as it is then
in_memory_locked(loaded, on_disk) == on_disk

\* shipments = load_json(SHIPMENTS_FILE): the list the handler modifies and
\* saves is the one it loaded, whatever the file holds by then
in_memory(loaded, on_disk) == loaded

load_approve(w, shipment_id, chosen_carrier, comments) ==
    /\ req[w].pc = "idle"
    /\ req' = [req EXCEPT ![w] = [op |-> "approve", pc |-> "loaded",
                                  shipment_id |-> shipment_id,
                                  chosen_carrier |-> chosen_carrier,
                                  comments |-> comments,
                                  shipments |-> store]]
    /\ UNCHANGED <<store, carriers, resp>>

save_approve(w) ==
    /\ req[w].pc = "loaded"
    /\ req[w].op = "approve"
    /\ LET shipments == in_memory(req[w].shipments, store)
           i == find_shipment(shipments, req[w].shipment_id)
       IN  IF i = 0
           THEN /\ resp' = [resp EXCEPT ![w] = NotFound("approve")]
                /\ UNCHANGED store
           ELSE /\ store' = [shipments EXCEPT ![i] =
                                 approve_shipment(@, req[w].chosen_carrier, req[w].comments)]
                /\ resp' = [resp EXCEPT ![w] =
                                [op |-> "approve", code |-> 200,
                                 body |-> [message |-> "Approval recorded",
                                           shipment_id |-> req[w].shipment_id,
                                           chosen_carrier |-> req[w].chosen_carrier,
                                           comments |-> req[w].comments]]]
    /\ req' = [req EXCEPT ![w].pc = "done"]
    /\ UNCHANGED carriers

load_reject(w, shipment_id, comments) ==
    /\ req[w].pc = "idle"
    /\ req' = [req EXCEPT ![w] = [op |-> "reject", pc |-> "loaded",
                                  shipment_id |-> shipment_id,
                                  comments |-> comments,
                                  shipments |-> store]]
    /\ UNCHANGED <<store, carriers, resp>>

save_reject(w) ==
    /\ req[w].pc = "loaded"
    /\ req[w].op = "reject"
    /\ LET shipments == in_memory(req[w].shipments, store)
           i == find_shipment(shipments, req[w].shipment_id)
       IN  IF i = 0
           THEN /\ resp' = [resp EXCEPT ![w] = NotFound("reject")]
                /\ UNCHANGED store
           ELSE /\ store' = [shipments EXCEPT ![i] = reject_shipment(@, req[w].comments)]
                /\ resp' = [resp EXCEPT ![w] =
                                [op |-> "reject", code |-> 200,
                                 body |-> [message |-> "Rejection recorded",
                                           shipment_id |-> req[w].shipment_id,
                                           comments |-> req[w].comments]]]
    /\ req' = [req EXCEPT ![w].pc = "done"]
    /\ UNCHANGED carriers

\* GET /api/dashboard: ensure_baselines loads the file ...
load_baselines(w) ==
    /\ req[w].pc = "idle"
    /\ req' = [req EXCEPT ![w] = [op |-> "dashboard", pc |-> "loaded", shipments |-> store]]
    /\ UNCHANGED <<store, carriers, resp>>

\* ... fills the baselines in its list and saves it if it set changed ...
save_baselines(w) ==
    /\ req[w].pc = "loaded"
    /\ req[w].op = "dashboard"
    /\ LET r == ensure_baselines_run(in_memory(req[w].shipments, store))
       IN  /\ store' = IF r.changed THEN r.saved ELSE store
           /\ req' = [req EXCEPT ![w] = [op |-> "dashboard", pc |-> "saved",
                                         shipments |-> req[w].shipments,
                                         wrote |-> r.changed]]
    /\ UNCHANGED <<carriers, resp>>

\* ... and dashboard_metrics loads the file again and aggregates it
aggregate(w) ==
    /\ req[w].pc = "saved"
    /\ resp' = [resp EXCEPT ![w] =
                    [op |-> "dashboard", code |-> 200, body |-> dashboard_body(store)]]
    /\ req' = [req EXCEPT ![w].pc = "done"]
    /\ UNCHANGED <<store, carriers>>

InitRace ==
    /\ store \in SeedStores
    /\ carriers = FullCatalog
    /\ req = [w \in Workers |-> Idle]
    /\ resp = [w \in Workers |-> Start]

NextRace ==
    \E w \in Workers :
        \/ \E id \in RequestIds, c \in ChosenCarriers : load_approve(w, id, c, "ok")
        \/ save_approve(w)
        \/ \E id \in RequestIds : load_reject(w, id, "no")
        \/ save_reject(w)
        \/ load_baselines(w)
        \/ save_baselines(w)
        \/ aggregate(w)

SpecRace == InitRace /\ [][NextRace]_vars

\* ------------------------------------------------------------------------
\* Properties of the store's life cycle (Spec)
\* ------------------------------------------------------------------------

OriginalKeys == {"original_carrier", "original_cost_usd", "original_emission_kg_co2e"}

\* C1: once a shipment has its original_carrier, original_cost_usd and
\* original_emission_kg_co2e, no step of any handler (ensure_baselines,
\* approve with any chosen carrier, reject, optimization, simulate,
\* dashboard) removes or changes one of them.
OriginalsNeverChange ==
    [][\A i \in 1..Len(store) :
          OriginalKeys \subseteq DOMAIN store[i]
            => /\ OriginalKeys \subseteq DOMAIN store'[i]
               /\ \A k \in OriginalKeys : store'[i][k] = store[i][k]]_vars

\* ensure_baselines has just run on a shipment whose carrier was changed by
\* an approval after its snapshot was taken, and the snapshot stands
OriginalKeptAfterReassignment ==
    /\ resp.op = "ensure_baselines"
    /\ \E i \in 1..Len(store) :
          /\ OriginalKeys \subseteq DOMAIN store[i]
          /\ store[i]["original_carrier"] = "RoadGulf"
          /\ store[i]["carrier"] = "SeaWise"
          /\ store[i]["status"] = "APPROVED"

\* the shipment a decision request names, as stored
decided == store[find_shipment(store, req.shipment_id)]

\* C2: after every successful approve or reject, the stored current_cost_usd
\* and current_emission_kg_co2e of the shipment are the cost and emission
\* computed for the carrier assigned to it after the call, whether or not
\* the request chose a carrier, the shipment declares a cost_usd, or the
\* carrier is in the catalog.
CurrentReflectsAssignedCarrier ==
    (resp.op \in {"approve", "reject"} /\ resp.code = 200)
      => LET fig == carrier_figures(decided,
                                    get_distance(decided["origin"], decided["destination"]))
         IN  /\ {"current_cost_usd", "current_emission_kg_co2e"} \subseteq DOMAIN decided
             /\ decided["current_cost_usd"] = fig.cost
             /\ decided["current_emission_kg_co2e"] = fig.emi.emission

\* C3: in every state an ensure_baselines call has just left (the call at
\* start-up or the one the dashboard makes), a second call sets changed for
\* no shipment, so it writes nothing, and what it would leave on disk is the
\* store as the first call left it.
EnsureBaselinesIdempotent ==
    resp.op \in {"ensure_baselines", "dashboard"}
      => /\ ensure_baselines_run(store).changed = FALSE
         /\ ensure_baselines_run(store).saved = store
         /\ \A i \in 1..Len(store) : baseline_shipment(store[i]).s = store[i]

\* a call that changed nothing, on a store no decision has touched since it
\* was baselined: the call before it on this store content was the one that
\* wrote the baselines
SecondCallChangedNothing ==
    /\ resp.op = "ensure_baselines"
    /\ resp.changed = FALSE
    /\ \A i \in 1..Len(store) :
          /\ "approver_comments" \notin DOMAIN store[i]
          /\ OriginalKeys \subseteq DOMAIN store[i]
          /\ "current_cost_usd" \in DOMAIN store[i]

\* C9: a simulate call leaves the stored shipments exactly as they were,
\* whatever shipment, overrides and policy the request carries.
SimulateNeverWrites ==
    [][resp'.op = "simulate" => store' = store]_vars

\* a scenario was computed for a stored shipment whose persisted current
\* cost differs from the scenario's cost
ScenarioDiffersFromStored ==
    /\ resp.op = "simulate"
    /\ resp.code = 200
    /\ \E i \in 1..Len(store) :
          /\ store[i]["shipment_id"] = req.shipment_id
          /\ "current_cost_usd" \in DOMAIN store[i]
          /\ store[i]["current_cost_usd"] # resp.body.scenario.cost_usd

StoredIds == {store[i]["shipment_id"] : i \in 1..Len(store)}

\* C12: an approve or reject that names an id no stored shipment has is
\* answered 404 with an error payload and leaves the store exactly as it
\* was: no field of any shipment changes and nothing is written.
MissingShipmentChangesNothing ==
    [][(req'.op \in {"approve", "reject"} /\ req'.shipment_id \notin StoredIds)
         => /\ resp'.code = 404
            /\ "error" \in DOMAIN resp'.body
            /\ store' = store]_vars

\* an approve that chose a carrier for an id that is not stored was refused,
\* on a baselined store that carries no trace of a decision
RefusedApproveLeftNoTrace ==
    /\ req.op = "approve"
    /\ req.shipment_id \notin StoredIds
    /\ req.chosen_carrier = "SeaWise"
    /\ resp.code = 404
    /\ \A i \in 1..Len(store) :
          /\ "approver_comments" \notin DOMAIN store[i]
          /\ store[i]["carrier"] # "SeaWise"
          /\ Get(store[i], "status", "CREATED") = "CREATED"
          /\ "original_carrier" \in DOMAIN store[i]

BaselineKeys ==
    {"original_cost_usd", "original_emission_kg_co2e",
     "current_cost_usd", "current_emission_kg_co2e"}

\* C16: whatever ran before, every shipment a dashboard call reports has
\* its original and current cost and emission set in the store the call
\* leaves, the report shows those values, and each emission_delta and
\* cost_delta is the current value minus the original one.
DashboardReportsBaselinedStore ==
    resp.op = "dashboard"
      => /\ Len(resp.body.shipments) = Len(store)
         /\ \A i \in 1..Len(store) :
               LET s == store[i]
                   d == resp.body.shipments[i]
               IN  /\ d.shipment_id = s["shipment_id"]
                   /\ BaselineKeys \subseteq DOMAIN s
                   /\ "original_carrier" \in DOMAIN s
                   /\ d.original_emission_kg_co2e = Some(s["original_emission_kg_co2e"])
                   /\ d.current_emission_kg_co2e = Some(s["current_emission_kg_co2e"])
                   /\ d.original_cost_usd = Some(s["original_cost_usd"])
                   /\ d.current_cost_usd = Some(s["current_cost_usd"])
                   /\ d.emission_delta =
                         s["current_emission_kg_co2e"] - s["original_emission_kg_co2e"]
                   /\ d.cost_delta = s["current_cost_usd"] - s["original_cost_usd"]

\* a dashboard reports an approved shipment whose emission and cost moved
\* away from the original snapshot
DashboardShowsMovedShipment ==
    /\ resp.op = "dashboard"
    /\ \E i \in 1..Len(store) :
          /\ resp.body.shipments[i].status = "APPROVED"
          /\ resp.body.shipments[i].original_carrier # resp.body.shipments[i].current_carrier
          /\ resp.body.shipments[i].emission_delta < 0
          /\ resp.body.shipments[i].cost_delta # 0

\* C17: for a shipment that has no original_carrier yet, an approve that
\* chooses a carrier assigns it and creates no original_* field, and the
\* next ensure_baselines (run directly or by the dashboard) records the
\* carrier assigned at that moment as original_carrier, with the cost and
\* emission computed for it as the original figures.
OriginalTakenAtFirstBaseline ==
    [][\A i \in 1..Len(store) :
          "original_carrier" \notin DOMAIN store[i]
            => /\ (/\ resp'.op = "approve"
                   /\ resp'.code = 200
                   /\ req'.shipment_id = store[i]["shipment_id"]
                   /\ Truthy(req'.chosen_carrier))
                    => /\ store'[i]["carrier"] = req'.chosen_carrier
                       /\ DOMAIN store'[i] \cap (OriginalKeys \cup {"original_emission_details"}) = {}
               /\ resp'.op \in {"ensure_baselines", "dashboard"}
                    => LET fig == carrier_figures(store[i],
                                      get_distance(store[i]["origin"], store[i]["destination"]))
                       IN  /\ OriginalKeys \subseteq DOMAIN store'[i]
                           /\ store'[i]["original_carrier"] = store[i]["carrier"]
                           /\ store'[i]["original_cost_usd"] = fig.cost
                           /\ store'[i]["original_emission_kg_co2e"] = fig.emi.emission]_vars

\* ensure_baselines has just run and a shipment's original carrier is one
\* no seed assigns: the approval that chose it came before the first
\* snapshot
OriginalIsTheApprovedCarrier ==
    /\ resp.op = "ensure_baselines"
    /\ \E i \in 1..Len(store) :
          /\ OriginalKeys \subseteq DOMAIN store[i]
          /\ store[i]["original_carrier"] = "SeaWise"
          /\ store[i]["status"] = "APPROVED"
          /\ store[i]["original_cost_usd"] = calc_cost(store[i]["distance_km"], 10, 0)

\* C18: a decision on a stored shipment always succeeds, whatever the
\* shipment's status: approve leaves it APPROVED and reject REJECTED;
\* reject keeps the assigned carrier, approve replaces it only by a
\* non-empty chosen_carrier; and every other shipment stays as it was.
DecisionsAreLastWriterWins ==
    [][(req'.op \in {"approve", "reject"} /\ req'.shipment_id \in StoredIds)
         => LET i == CHOOSE k \in 1..Len(store) : store[k]["shipment_id"] = req'.shipment_id
            IN  /\ resp'.code = 200
                /\ Len(store') = Len(store)
                /\ store'[i]["status"] =
                      (IF req'.op = "approve" THEN "APPROVED" ELSE "REJECTED")
                /\ store'[i]["carrier"] =
                      (IF req'.op = "approve" /\ Truthy(req'.chosen_carrier)
                       THEN req'.chosen_carrier ELSE store[i]["carrier"])
                /\ \A j \in 1..Len(store) : j # i => store'[j] = store[j]]_vars

\* a shipment stands REJECTED on a carrier only an approval can have given
\* it, while the other shipment is still undecided
RejectedAfterApproval ==
    /\ resp.op = "reject"
    /\ resp.code = 200
    /\ decided["status"] = "REJECTED"
    /\ decided["carrier"] = "SeaWise"
    /\ \E j \in 1..Len(store) : "approver_comments" \notin DOMAIN store[j]

\* ------------------------------------------------------------------------
\* Properties of optimization (SpecOpt)
\* ------------------------------------------------------------------------

Elems(seq) == {seq[i] : i \in 1..Len(seq)}

OptDone == resp.op = "optimization" /\ resp.code = 200

\* a ranks strictly before b: less emission, or equal emission and less cost
RanksBefore(a, b) ==
    \/ a.emission_kg_co2e < b.emission_kg_co2e
    \/ /\ a.emission_kg_co2e = b.emission_kg_co2e
       /\ a.estimated_cost_usd < b.estimated_cost_usd

\* the request supplied a due date that is a date
DueSupplied ==
    /\ "sla_due_date" \in DOMAIN req.args
    /\ strptime(req.args["sla_due_date"]) # None

\* every predicate the request makes applicable is reported true for the
\* alternative: the emission reduction always, each budget predicate and the
\* SLA predicate only when the request supplied its field
Compliant(a) ==
    LET pa == a.policy_alignment[1]
    IN  /\ pa.meets_min_emission_reduction = TRUE
        /\ ("budget_cap_usd" \in DOMAIN req.args => pa.within_budget_cap = Some(TRUE))
        /\ ("budget_increase_max_pct" \in DOMAIN req.args
               => pa.within_budget_increase_pct = Some(TRUE))
        /\ (DueSupplied => pa.sla_met = Some(TRUE))

\* C4: the recommended entry is one of the candidates and no candidate ranks
\* strictly before it in the order (emission, cost): none has less emission,
\* and none of equal emission has less cost.
RecommendedIsLeast ==
    (OptDone /\ resp.body.recommended # None)
      => /\ resp.body.recommended[1] \in Elems(resp.candidates)
         /\ \A c \in Elems(resp.candidates) : ~RanksBefore(c, resp.body.recommended[1])

\* two candidates tie on emission and the cheaper one is recommended
TieBrokenByCost ==
    /\ OptDone
    /\ resp.body.recommended # None
    /\ \E c \in Elems(resp.candidates) :
          /\ c.emission_kg_co2e = resp.body.recommended[1].emission_kg_co2e
          /\ c.estimated_cost_usd > resp.body.recommended[1].estimated_cost_usd

\* C5: with policy fields supplied and a nonzero current emission, whenever
\* some alternative is compliant the candidates are exactly the compliant
\* alternatives.
CandidatesAreTheCompliant ==
    (/\ OptDone
     /\ req.args # <<>>
     /\ resp.body.current.emission_kg_co2e # 0
     /\ \E a \in Elems(resp.body.alternatives) : Compliant(a))
      => resp.candidates = SelectSeq(resp.body.alternatives, Compliant)

\* C6: a stored shipment is answered without error; recommended is null
\* exactly when there are no alternatives; and when there are alternatives
\* but none is compliant, recommended is a least element of all the
\* alternatives in the order (emission, cost).
FallbackToAllAlternatives ==
    /\ (resp.op = "optimization" /\ req.shipment_id \in ShipmentIds) => resp.code = 200
    /\ OptDone =>
          /\ (resp.body.recommended = None) <=> (resp.body.alternatives = <<>>)
          /\ (/\ resp.body.alternatives # <<>>
              /\ ~ \E a \in Elems(resp.body.alternatives) : Compliant(a))
               => /\ resp.body.recommended # None
                  /\ resp.body.recommended[1] \in Elems(resp.body.alternatives)
                  /\ \A a \in Elems(resp.body.alternatives) :
                        ~RanksBefore(a, resp.body.recommended[1])

\* the pre-filter ran on a supplied policy, no alternative passed it, and
\* an alternative is recommended all the same
NoneCompliantStillRecommended ==
    /\ OptDone
    /\ req.args # <<>>
    /\ resp.body.current.emission_kg_co2e # 0
    /\ resp.body.alternatives # <<>>
    /\ ~ \E a \in Elems(resp.body.alternatives) : Compliant(a)
    /\ resp.body.recommended # None

\* C7: a request that supplies no policy field filters nothing: the
\* candidates are all the alternatives and recommended is a least element
\* of them in the order (emission, cost).
NoPolicyFieldsNoFilter ==
    (OptDone /\ req.args = <<>>)
      => /\ resp.candidates = resp.body.alternatives
         /\ resp.body.alternatives # <<>>
              => /\ resp.body.recommended # None
                 /\ \A a \in Elems(resp.body.alternatives) :
                       ~RanksBefore(a, resp.body.recommended[1])

\* C8: with a due date that is a date, every alternative that has transit
\* days reports sla_met as the boolean (today + transit days <= due date).
SlaMetIsArrivalByDue ==
    (OptDone /\ DueSupplied)
      => \A a \in Elems(resp.body.alternatives) :
            a.transit_days # None
              => a.policy_alignment[1].sla_met =
                    Some(Ordinal(Today) + a.transit_days[1]
                            <= strptime(req.args["sla_due_date"])[1])

\* the request supplied a due date text that is no date
DueMalformed ==
    /\ "sla_due_date" \in DOMAIN req.args
    /\ strptime(req.args["sla_due_date"]) = None

\* the query string without its sla_due_date
ArgsWithoutDue == [k \in (DOMAIN req.args) \ {"sla_due_date"} |-> req.args[k]]

\* C13: a request whose sla_due_date is no date is answered 200 with the
\* alternatives (their policy predicates included), the candidates and the
\* recommended carrier of the same request without a due date; no
\* alternative reports an SLA outcome, and the filter does not ask for one.
MalformedDueDateIsAbsent ==
    (resp.op = "optimization" /\ req.shipment_id \in StoredIds /\ DueMalformed)
      => /\ resp.code = 200
         /\ LET r == optimization_response(decided, req.shipment_id, ArgsWithoutDue)
            IN  /\ resp.body.alternatives = r.body.alternatives
                /\ resp.candidates = r.candidates
                /\ resp.body.recommended = r.body.recommended
         /\ \A a \in Elems(resp.body.alternatives) : a.policy_alignment[1].sla_met = None

\* with a due date that is no date the filter still kept some alternatives
\* and dropped others
MalformedDateStillFiltered ==
    /\ OptDone
    /\ DueMalformed
    /\ resp.candidates # <<>>
    /\ Len(resp.candidates) < Len(resp.body.alternatives)

\* ------------------------------------------------------------------------
\* Properties of simulate (SpecSim)
\* ------------------------------------------------------------------------

SimDone == resp.op = "simulate" /\ resp.code = 200

\* C10: every override present in the request is the value the scenario
\* uses, zero included: mode, distance, emission factor, transit days, and
\* the rate and surcharges that make up the scenario's cost.
PresentOverridesAreUsed ==
    SimDone =>
      LET d  == req.data
          sc == resp.body.scenario
      IN  /\ "mode" \in DOMAIN d => sc.mode = Some(d["mode"])
          /\ "distance_km" \in DOMAIN d => sc.distance_km = d["distance_km"]
          /\ "emission_factor_kgco2e_per_ton_km" \in DOMAIN d
                => sc.emission_calculation.emission_factor_kgco2e_per_ton_km
                      = d["emission_factor_kgco2e_per_ton_km"]
          /\ "expected_transit_days" \in DOMAIN d
                => sc.transit_days = Some(d["expected_transit_days"])
          /\ "base_cost_per_km" \in DOMAIN d
                => sc.cost_usd = sc.distance_km * d["base_cost_per_km"]
                                    + Get(d, "surcharges_usd", 0)

\* C11: the policy_alignment block simulate reports for its scenario is,
\* field for field, the block optimization computes for an alternative of
\* the same cost, emission and transit days under the same policy and the
\* same current cost and emission, the predicates reported as null included.
SimulateAlignsLikeOptimization ==
    (SimDone /\ resp.body.policy_alignment # None)
      => resp.body.policy_alignment[1]
           = policy_eval(parse_policy_from_request(Get(req.data, "policy", <<>>)),
                         resp.body.current.emission_kg_co2e,
                         resp.body.current.cost_usd,
                         resp.body.scenario.emission_kg_co2e,
                         resp.body.scenario.cost_usd,
                         resp.body.scenario.transit_days)

\* ------------------------------------------------------------------------
\* Properties of the emission calculation (SpecEmission)
\* ------------------------------------------------------------------------

DefaultFactorSource == "default:0.1 (missing or unknown mode)"

\* the mode has an entry in the table that is a number
HasTableFactor(mode) ==
    /\ mode # None
    /\ mode[1] \in DOMAIN EmissionFile
    /\ EmissionFile[mode[1]] # None

\* C14: the factor is resolved in the order override, table, fallback, and
\* factor_source tells which: an override is used and tagged "override"
\* whatever the mode; without one, a mode with a factor in the table uses
\* it; otherwise the factor is 0.1; and factor_source is the default tag
\* exactly when the 0.1 fallback was the factor used.
FactorSourceTellsResolution ==
    resp.op = "emission" =>
      LET det == resp.result.details
          fallback_used == req.factor_override = None /\ ~HasTableFactor(req.mode)
      IN  /\ req.factor_override # None
                => /\ det.emission_factor_kgco2e_per_ton_km = req.factor_override[1]
                   /\ det.factor_source = "override"
          /\ (req.factor_override = None /\ HasTableFactor(req.mode))
                => det.emission_factor_kgco2e_per_ton_km = EmissionFile[req.mode[1]][1]
          /\ fallback_used => det.emission_factor_kgco2e_per_ton_km = 100
          /\ (det.factor_source = DefaultFactorSource) <=> fallback_used

\* ------------------------------------------------------------------------
\* Properties of two requests served at once (SpecRace)
\* ------------------------------------------------------------------------

\* worker w answered 200
Succeeded(w) == req[w].pc = "done" /\ resp[w].code = 200

Decides(w) == req[w].op \in {"approve", "reject"}

\* the position in the file of the shipment w's decision names
target(w) == find_shipment(store, req[w].shipment_id)

\* w's handler called save_json
Wrote(w) == IF Decides(w) THEN TRUE ELSE req[w].wrote

\* what w's request wrote is in the given list: the decision with its
\* comments, or the baselines of every shipment
ChangeIn(w, shipments) ==
    IF Decides(w)
    THEN /\ Get(shipments[target(w)], "status", "") =
                (IF req[w].op = "approve" THEN "APPROVED" ELSE "REJECTED")
         /\ Get(shipments[target(w)], "approver_comments", "") = req[w].comments
    ELSE \A j \in 1..Len(shipments) : "original_carrier" \in DOMAIN shipments[j]

\* the two requests do not write the same thing: decisions on different
\* shipments, or a decision and a baseline run
Independent(w, v) ==
    IF Decides(w) /\ Decides(v) THEN target(w) # target(v) ELSE Decides(w) \/ Decides(v)

\* C15: when two requests that both write the store have each loaded the
\* file before the other saved, and both answered 200, the file holds the
\* change of at most one of them: the later save put back the list its
\* handler had loaded, without the change the earlier save had written.
RacingWritersLoseAnUpdate ==
    \A w, v \in Workers :
        (/\ w # v
         /\ Succeeded(w) /\ Succeeded(v)
         /\ Wrote(w) /\ Wrote(v)
         /\ Independent(w, v)
         /\ ~ChangeIn(v, req[w].shipments)
         /\ ~ChangeIn(w, req[v].shipments))
          => ~(ChangeIn(w, store) /\ ChangeIn(v, store))

\* two approvals of different shipments both answered 200 and the file
\* shows only one of them
ApprovalLostToLaterSave ==
    \E w, v \in Workers :
        /\ w # v
        /\ Succeeded(w) /\ Succeeded(v)
        /\ req[w].op = "approve" /\ req[v].op = "approve"
        /\ target(w) # target(v)
        /\ ChangeIn(v, store)
        /\ ~ChangeIn(w, store)
        /\ "approver_comments" \notin DOMAIN store[target(w)]

====
